---- MODULE Spec2Model ----
(***************************************************************************)
(* DD-Net-Pytorch/train.py: the training / evaluation orchestration        *)
(* (main, train, test), the plateau learning-rate policy that main         *)
(* configures (ReduceLROnPlateau, lines 238-244) and the inference timing  *)
(* harness (lines 290-329).                                                *)
(*                                                                         *)
(* Number representation.                                                  *)
(*   learning rates   integers, in units of 1e-9 (0.01 = 10000000)         *)
(*   gamma (factor)   numerator over GammaDen    (0.5  = 5000/10000)       *)
(*   cooldown counter integers, in tenths        (0.5  = 5, 1 = 10)        *)
(*   losses           [k |-> "fin", v |-> n], or the floats inf and nan    *)
(***************************************************************************)
EXTENDS Integers, Sequences, FiniteSets, TLC

VARIABLES
    args,         \* the parsed command line (line 129), fixed for the run
    env,          \* the machine and the data: cuda present, len(train_loader)
    pc,           \* position of the single thread of control in main
    exit_code,    \* process exit status: -1 while running
    error,        \* what ended the run abnormally: "none" while it has not
    resources,    \* which of data / model / optimizer / scheduler were created
    model_device, \* device the model's parameters are on ("none": no model)
    mode,         \* model.train() / model.eval()
    epoch,        \* loop variable of line 240
    batch_idx,    \* loop variable of train (line 46) and of test (line 79)
    loss_sum,     \* local train_loss of train() (line 44) / test_loss of test()
    correct,      \* local of test() (line 76)
    train_loss,   \* main's train_loss (line 241), the value train() returned
    history,      \* module-level history (lines 31-35)
    sched,        \* scheduler state and the optimizer lr it drives
    timing,       \* timing harness locals (lines 291-328)
    obs           \* observers: history variables the properties are stated on

vars == <<args, env, pc, exit_code, error, resources, model_device, mode, epoch,
          batch_idx, loss_sum, correct, train_loss, history, sched, timing, obs>>

----------------------------------------------------------------------------
(* Bounds of the model *)

MaxEpochs == 2
MaxBatches == 3
MaxLogInterval == 2
MaxOptSteps == 4
MaxCalls == 14
TestSize == 2

(* Program constants *)

Patience == 5
CooldownTenths == 5
MinLr == 5000
Eps == 10
ThresholdDen == 10000
GammaDen == 10000
DefaultLr == 10000000
DefaultGamma == 5000
TestBatchSize == 1000

----------------------------------------------------------------------------
(* Floats that matter: finite values, +inf and nan *)

Fin(n) == [k |-> "fin", v |-> n]
Inf == [k |-> "inf", v |-> 0]
NaN == [k |-> "nan", v |-> 0]

\* train_loss += loss.item()
float_add(a, b) ==
    IF a.k = "nan" \/ b.k = "nan" THEN NaN
    ELSE IF a.k = "inf" \/ b.k = "inf" THEN Inf
    ELSE Fin(a.v + b.v)

Min(a, b) == IF a <= b THEN a ELSE b
Max(a, b) == IF a >= b THEN a ELSE b

----------------------------------------------------------------------------
(* The plateau policy: ReduceLROnPlateau(optimizer, factor=args.gamma,     *)
(* patience=5, cooldown=0.5, min_lr=5e-6), mode 'min', threshold 1e-4      *)
(* relative, eps 1e-8; stepped with the epoch's training loss.             *)

new_scheduler(lr) ==
    [lr |-> lr, best |-> Inf, num_bad_epochs |-> 0, cooldown_counter |-> 0,
     last_epoch |-> 0]

is_better_nan_passes(a, best) ==
    ~ ( \/ a.k = "inf"
        \/ (a.k = "fin" /\ best.k = "fin"
              /\ a.v * ThresholdDen >= best.v * (ThresholdDen - 1)) )

\* a < best * (1 - threshold); every comparison with nan is false
is_better(a, best) ==
    /\ a.k = "fin"
    /\ \/ best.k = "inf"
       \/ best.k = "fin" /\ a.v * ThresholdDen < best.v * (ThresholdDen - 1)

in_cooldown_whole(s) == s.cooldown_counter >= 10

in_cooldown(s) == s.cooldown_counter > 0

\* old_lr * factor, cut to the unit: floor(lr * gamma / GammaDen), computed
\* on the quotient and the remainder of lr to stay within 32 bits
times_factor(lr) ==
    (lr \div GammaDen) * args.gamma + ((lr % GammaDen) * args.gamma) \div GammaDen

reduce_lr_nofloor(s) ==
    LET new_lr == times_factor(s.lr)
    IN  IF s.lr - new_lr > Eps THEN [s EXCEPT !.lr = new_lr] ELSE s

reduce_lr(s) ==
    LET new_lr == Max(times_factor(s.lr), MinLr)
    IN  IF s.lr - new_lr > Eps THEN [s EXCEPT !.lr = new_lr] ELSE s

reduces_at_patience(s) == s.num_bad_epochs >= Patience

\* num_bad_epochs > patience: the test that triggers a reduction
reduces(s) == s.num_bad_epochs > Patience

\* step, up to the test for a reduction
before_reduce(s, m) ==
    LET s1 == [s EXCEPT !.last_epoch = @ + 1]
        s2 == IF is_better(m, s1.best)
              THEN [s1 EXCEPT !.best = m, !.num_bad_epochs = 0]
              ELSE [s1 EXCEPT !.num_bad_epochs = @ + 1]
    IN  IF in_cooldown(s2)
        THEN [s2 EXCEPT !.cooldown_counter = @ - 10, !.num_bad_epochs = 0]
        ELSE s2

\* scheduler.step(metrics)
step(s, m) ==
    LET s3 == before_reduce(s, m)
    IN  IF reduces(s3)
        THEN [reduce_lr(s3) EXCEPT !.cooldown_counter = CooldownTenths,
                                   !.num_bad_epochs = 0]
        ELSE s3

\* whether step(s, m) takes the reduction branch
step_reduces(s, m) == reduces(before_reduce(s, m))

(* Observers of the policy: the metric last fed, the learning rate before  *)
(* the last call, the run of consecutive non-improving metrics (and of     *)
(* nan / inf metrics), the reductions inside that run, and the calls at    *)
(* which the last two reductions happened (0: none).                       *)
new_obs ==
    [metric |-> Fin(0), prev_lr |-> 0, streak |-> 0, deg_streak |-> 0,
     reds |-> 0, last_reduce |-> 0, prev_reduce |-> 0,
     batch_losses |-> << >>, opt_steps |-> 0, events |-> << >>]

observe_step(o, s, m) ==
    LET better == is_better(m, s.best)
        red == step_reduces(s, m)
    IN  [o EXCEPT
           !.metric = m,
           !.prev_lr = s.lr,
           !.streak = IF better THEN 0 ELSE @ + 1,
           !.deg_streak = IF m.k \in {"inf", "nan"} THEN @ + 1 ELSE 0,
           !.reds = IF better THEN 0 ELSE IF red THEN @ + 1 ELSE @,
           !.last_reduce = IF red THEN s.last_epoch + 1 ELSE @,
           !.prev_reduce = IF red THEN o.last_reduce ELSE @]

----------------------------------------------------------------------------
(* main, train and test *)

device_list == <<"cpu", "cuda">>

\* lines 131-133: "cuda" if not args.no_cuda and torch.cuda.is_available()
device == IF ~args.no_cuda /\ env.cuda THEN "cuda" ELSE "cpu"

supported_nonnegative(dataset) == dataset >= 0

\* lines 163-178: the selectors with a branch of their own
supported(dataset) == dataset \in {0, 1, 2}

\* line 62: the batch's progress record is logged
logged(idx) == idx % args.log_interval = 0

should_break_never(idx) == FALSE

\* lines 62 and 68: the batch is logged and dry_run is set
should_break(idx) == logged(idx) /\ args.dry_run

append_overwrite(list, x) == <<x>>

\* list.append(x) on a list of history
append(list, x) == Append(list, x)

step_metric_stale == obs.metric

\* line 244: the argument of scheduler.step
step_metric == train_loss

\* len(test_loader) and the size of its batch i (0-based)
TestBatchCount == (TestSize + TestBatchSize - 1) \div TestBatchSize
test_batch_len(i) == Min(TestBatchSize, TestSize - i * TestBatchSize)

\* what one forward pass and the criterion can give on a batch
BatchLosses == {Fin(1), Fin(2), NaN}
TestOutcomes(n) == {[loss |-> Fin(1), correct |-> n], [loss |-> Fin(2), correct |-> 0]}

log(o, e) == [o EXCEPT !.events = Append(@, e)]

crash(why) ==
    /\ pc' = "crashed"
    /\ error' = why
    /\ exit_code' = 1

\* lines 129-180
SelectDataset ==
    /\ pc = "start"
    /\ IF supported(args.dataset)
       THEN pc' = "load" /\ UNCHANGED <<exit_code, error>>
       ELSE pc' = "exited" /\ exit_code' = 1 /\ UNCHANGED error
    /\ UNCHANGED <<args, env, resources, model_device, mode, epoch, batch_idx,
                   loss_sum, correct, train_loss, history, sched, timing, obs>>

\* lines 182-199
LoadData ==
    /\ pc = "load"
    /\ resources' = resources \cup {"data"}
    /\ pc' = "build"
    /\ UNCHANGED <<args, env, exit_code, error, model_device, mode, epoch,
                   batch_idx, loss_sum, correct, train_loss, history, sched,
                   timing, obs>>

\* lines 222-224
BuildModel ==
    /\ pc = "build"
    /\ resources' = resources \cup {"model"}
    /\ model_device' = device
    /\ mode' = "train"
    /\ pc' = "optim"
    /\ UNCHANGED <<args, env, exit_code, error, epoch, batch_idx, loss_sum,
                   correct, train_loss, history, sched, timing, obs>>

\* lines 235-240
CreateOptimizer ==
    /\ pc = "optim"
    /\ resources' = resources \cup {"optimizer", "scheduler"}
    /\ sched' = new_scheduler(args.lr)
    /\ epoch' = 1
    /\ pc' = "loop"
    /\ UNCHANGED <<args, env, exit_code, error, model_device, mode, batch_idx,
                   loss_sum, correct, train_loss, history, timing, obs>>

\* line 240, and lines 43-44 of the call of train
EpochLoop ==
    /\ pc = "loop"
    /\ IF epoch <= args.epochs
       THEN /\ pc' = "train"
            /\ mode' = "train"
            /\ loss_sum' = Fin(0)
            /\ batch_idx' = 0
            /\ obs' = [obs EXCEPT !.batch_losses = << >>]
       ELSE /\ pc' = "report"
            /\ UNCHANGED <<mode, loss_sum, batch_idx, obs>>
    /\ UNCHANGED <<args, env, exit_code, error, resources, model_device, epoch,
                   correct, train_loss, history, sched, timing>>

\* lines 46-69: one batch of train
TrainBatch ==
    /\ pc = "train"
    /\ batch_idx < env.n_batches
    /\ \E loss \in BatchLosses :
          /\ loss_sum' = float_add(loss_sum, loss)
          /\ obs' = [obs EXCEPT !.batch_losses = Append(@, loss),
                                !.opt_steps = @ + 1]
    /\ IF should_break(batch_idx)
       THEN pc' = "train_ret" /\ UNCHANGED batch_idx
       ELSE pc' = "train" /\ batch_idx' = batch_idx + 1
    /\ UNCHANGED <<args, env, exit_code, error, resources, model_device, mode,
                   epoch, correct, train_loss, history, sched, timing>>

\* lines 70-71 and 241, then line 243 and lines 74-76 of the call of test
TrainReturn ==
    /\ \/ pc = "train_ret"
       \/ pc = "train" /\ batch_idx = env.n_batches
    /\ history' = [history EXCEPT !.train_loss = append(@, loss_sum)]
    /\ train_loss' = loss_sum
    /\ pc' = "test"
    /\ mode' = "eval"
    /\ loss_sum' = Fin(0)
    /\ correct' = 0
    /\ batch_idx' = 0
    /\ obs' = log(obs, "train")
    /\ UNCHANGED <<args, env, exit_code, error, resources, model_device, epoch,
                   sched, timing>>

\* lines 79-89: one batch of test
TestBatch ==
    /\ pc = "test"
    /\ batch_idx < TestBatchCount
    /\ \E o \in TestOutcomes(test_batch_len(batch_idx)) :
          /\ loss_sum' = float_add(loss_sum, o.loss)
          /\ correct' = correct + o.correct
    /\ batch_idx' = batch_idx + 1
    /\ UNCHANGED <<args, env, pc, exit_code, error, resources, model_device,
                   mode, epoch, train_loss, history, sched, timing, obs>>

\* lines 91-98
TestReturn ==
    /\ pc = "test"
    /\ batch_idx = TestBatchCount
    /\ history' = [history EXCEPT
                     !.test_loss = append(@, [num |-> loss_sum, den |-> TestSize]),
                     !.test_acc = append(@, [num |-> correct, den |-> TestSize])]
    /\ pc' = "step"
    /\ obs' = log(obs, "test")
    /\ UNCHANGED <<args, env, exit_code, error, resources, model_device, mode,
                   epoch, batch_idx, loss_sum, correct, train_loss, sched, timing>>

\* line 244, and the increment of the loop of line 240
SchedStep ==
    /\ pc = "step"
    /\ sched' = step(sched, step_metric)
    /\ obs' = log(observe_step(obs, sched, step_metric), "step")
    /\ epoch' = epoch + 1
    /\ pc' = "loop"
    /\ UNCHANGED <<args, env, exit_code, error, resources, model_device, mode,
                   batch_idx, loss_sum, correct, train_loss, history, timing>>

\* lines 246-288: np.argmax of an empty list raises; then the forward pass
\* of line 265 and the save
Report ==
    /\ pc = "report"
    /\ IF Len(history.test_acc) = 0
       THEN crash("argmax_empty") /\ UNCHANGED <<mode, timing, obs>>
       ELSE /\ mode' = "eval"
            /\ IF args.calc_time
               THEN /\ pc' = "timing_move"
                    /\ timing' = [timing EXCEPT !.dev = 1]
                    /\ obs' = log(obs, "timing")
                    /\ UNCHANGED exit_code
               ELSE /\ pc' = "done"
                    /\ exit_code' = 0
                    /\ UNCHANGED <<timing, obs>>
            /\ UNCHANGED error
    /\ UNCHANGED <<args, env, resources, model_device, epoch, batch_idx,
                   loss_sum, correct, train_loss, history, sched>>

\* lines 293-305: .to(tmp_device) raises when the backend is not there
TimingMove ==
    /\ pc = "timing_move"
    /\ timing' = [timing EXCEPT !.original_model_device = model_device]
    /\ IF device_list[timing.dev] = "cuda" /\ ~env.cuda
       THEN crash("backend_unavailable") /\ UNCHANGED model_device
       ELSE /\ model_device' = device_list[timing.dev]
            /\ pc' = "timing_warmup"
            /\ UNCHANGED <<exit_code, error>>
    /\ UNCHANGED <<args, env, resources, mode, epoch, batch_idx, loss_sum,
                   correct, train_loss, history, sched, obs>>

\* lines 308-316
TimingWarmup ==
    /\ pc = "timing_warmup"
    /\ timing' = [timing EXCEPT !.i = 0]
    /\ pc' = "timing_run"
    /\ UNCHANGED <<args, env, exit_code, error, resources, model_device, mode,
                   epoch, batch_idx, loss_sum, correct, train_loss, history,
                   sched, obs>>

\* lines 317-320: one sample
TimingSample ==
    /\ pc = "timing_run"
    /\ timing.i < TestSize
    /\ timing' = [timing EXCEPT !.i = @ + 1]
    /\ UNCHANGED <<args, env, pc, exit_code, error, resources, model_device,
                   mode, epoch, batch_idx, loss_sum, correct, train_loss,
                   history, sched, obs>>

\* lines 322-329, and the end of main after the last device
TimingRestore ==
    /\ pc = "timing_run"
    /\ timing.i = TestSize
    /\ model_device' = timing.original_model_device
    /\ IF timing.dev < Len(device_list)
       THEN /\ timing' = [timing EXCEPT !.dev = @ + 1,
                            !.reported = @ \cup {device_list[timing.dev]}]
            /\ pc' = "timing_move"
            /\ UNCHANGED exit_code
       ELSE /\ timing' = [timing EXCEPT
                            !.reported = @ \cup {device_list[timing.dev]}]
            /\ pc' = "done"
            /\ exit_code' = 0
    /\ UNCHANGED <<args, env, error, resources, mode, epoch, batch_idx,
                   loss_sum, correct, train_loss, history, sched, obs>>

\* a forward pass of the model (lines 57, 81, 265, 308, 318) raises: nothing
\* in main, train or test catches it
ForwardRaises ==
    /\ \/ pc = "train" /\ batch_idx < env.n_batches
       \/ pc = "test" /\ batch_idx < TestBatchCount
       \/ pc = "report" /\ Len(history.test_acc) > 0
       \/ pc = "timing_warmup"
       \/ pc = "timing_run" /\ timing.i < TestSize
    /\ crash("forward")
    /\ UNCHANGED <<args, env, resources, model_device, mode, epoch, batch_idx,
                   loss_sum, correct, train_loss, history, sched, timing, obs>>

Datasets == {-1, 0, 1, 2, 3}

Init ==
    /\ args \in [dataset : Datasets, epochs : 0..MaxEpochs, lr : {DefaultLr},
                  gamma : {DefaultGamma}, no_cuda : BOOLEAN, dry_run : BOOLEAN,
                  log_interval : 1..MaxLogInterval, calc_time : BOOLEAN]
    /\ env \in [cuda : BOOLEAN, n_batches : 0..MaxBatches]
    /\ args.epochs * env.n_batches <= MaxOptSteps
    /\ pc = "start"
    /\ exit_code = -1
    /\ error = "none"
    /\ resources = {}
    /\ model_device = "none"
    /\ mode = "none"
    /\ epoch = 0
    /\ batch_idx = 0
    /\ loss_sum = Fin(0)
    /\ correct = 0
    /\ train_loss = Fin(0)
    /\ history = [train_loss |-> << >>, test_loss |-> << >>, test_acc |-> << >>]
    /\ sched = new_scheduler(args.lr)
    /\ timing = [dev |-> 0, original_model_device |-> "none", i |-> 0,
                 reported |-> {}]
    /\ obs = new_obs

Next ==
    \/ SelectDataset
    \/ LoadData
    \/ BuildModel
    \/ CreateOptimizer
    \/ EpochLoop
    \/ TrainBatch
    \/ TrainReturn
    \/ TestBatch
    \/ TestReturn
    \/ SchedStep
    \/ Report
    \/ TimingMove
    \/ TimingWarmup
    \/ TimingSample
    \/ TimingRestore
    \/ ForwardRaises

Spec == Init /\ [][Next]_vars

----------------------------------------------------------------------------
(* The policy alone: the loop of lines 240-244 with the training and the   *)
(* evaluation pass abstracted to the loss value the training pass returns. *)

Metrics == {Fin(0), Fin(9999), Fin(10000), Inf, NaN}
LrChoices == {DefaultLr, 10000, 5005, 1000}
GammaChoices == {DefaultGamma, 9995, 1000}

SchedInit ==
    /\ args \in [dataset : {0}, epochs : {MaxCalls}, lr : LrChoices,
                  gamma : GammaChoices, no_cuda : {FALSE}, dry_run : {FALSE},
                  log_interval : {1}, calc_time : {FALSE}]
    /\ env = [cuda |-> FALSE, n_batches |-> 1]
    /\ pc = "step"
    /\ exit_code = -1
    /\ error = "none"
    /\ resources = {"data", "model", "optimizer", "scheduler"}
    /\ model_device = device
    /\ mode = "eval"
    /\ epoch = 1
    /\ batch_idx = 0
    /\ loss_sum = Fin(0)
    /\ correct = 0
    /\ train_loss = Fin(0)
    /\ history = [train_loss |-> << >>, test_loss |-> << >>, test_acc |-> << >>]
    /\ sched = new_scheduler(args.lr)
    /\ timing = [dev |-> 0, original_model_device |-> "none", i |-> 0,
                 reported |-> {}]
    /\ obs = new_obs

\* lines 240-244: the epoch's training loss, then scheduler.step on it
FeedStep ==
    /\ pc = "step"
    /\ epoch <= args.epochs
    /\ \E m \in Metrics :
          /\ train_loss' = m
          /\ sched' = step(sched, m)
          /\ obs' = observe_step(obs, sched, m)
    /\ epoch' = epoch + 1
    /\ UNCHANGED <<args, env, pc, exit_code, error, resources, model_device,
                   mode, batch_idx, loss_sum, correct, history, timing>>

SchedNext == FeedStep

SchedSpec == SchedInit /\ [][SchedNext]_vars

----------------------------------------------------------------------------
(* Properties *)

IsPrefix(p, q) == Len(p) <= Len(q) /\ \A i \in 1..Len(p) : p[i] = q[i]

RECURSIVE SumLosses(_)
SumLosses(q) ==
    IF q = << >> THEN Fin(0)
    ELSE float_add(SumLosses(SubSeq(q, 1, Len(q) - 1)), q[Len(q)])

\* the learning rate a triggered reduction leaves, from the rate before it
AfterReduction(lr) ==
    LET new_lr == Max(times_factor(lr), MinLr)
    IN  IF lr - new_lr > Eps THEN new_lr ELSE lr

(* C1, as claimed: after every scheduler.step the learning rate is at most *)
(* what it was before the call and at least the floor min_lr.              *)
C1_NonIncreasingAboveFloor ==
    sched.last_epoch >= 1 =>
        sched.lr <= obs.prev_lr /\ sched.lr >= MinLr

(* C1, amended: after every scheduler.step the learning rate is at most    *)
(* what it was before the call and at least min(min_lr, rate before the    *)
(* call); so it is never below min_lr when the initial rate args.lr is not.*)
C1_NonIncreasingFloorOrInitial ==
    sched.last_epoch >= 1 =>
        /\ sched.lr <= obs.prev_lr
        /\ sched.lr >= Min(MinLr, obs.prev_lr)
        /\ sched.lr >= Min(MinLr, args.lr)

\* a reduction was cut off at the floor
C1_Witness ==
    sched.last_epoch >= 1 /\ sched.lr = MinLr /\ obs.prev_lr > MinLr

\* C2, the part about when reductions happen in a run of non-improving values
ReductionOnSixth ==
    /\ obs.streak <= Patience => obs.reds = 0
    /\ obs.streak \in {Patience + 1, Patience + 2} =>
          /\ obs.reds = 1
          /\ obs.last_reduce = sched.last_epoch - (obs.streak - (Patience + 1))

(* C2, as claimed: 6 consecutive non-improving values give exactly one     *)
(* reduction, on the 6th, which multiplies the rate by the factor whenever *)
(* the product is above the floor; the 7th value gives none.               *)
C2_SixthReducesByFactor ==
    sched.best.k = "fin" =>
        /\ ReductionOnSixth
        /\ (obs.streak = Patience + 1 /\ times_factor(obs.prev_lr) > MinLr) =>
              sched.lr = times_factor(obs.prev_lr)

(* C2, amended: 6 consecutive non-improving values give exactly one        *)
(* reduction, on the 6th, and the 7th gives none; the reduction multiplies *)
(* the rate by the factor when the product is above the floor and more     *)
(* than eps below the rate, and in every case leaves                       *)
(* max(rate * factor, min_lr) if that is more than eps below the rate and  *)
(* the rate unchanged otherwise.                                           *)
C2_SixthReducesByFactorUnlessEps ==
    sched.best.k = "fin" =>
        /\ ReductionOnSixth
        /\ (/\ obs.streak = Patience + 1
            /\ times_factor(obs.prev_lr) > MinLr
            /\ obs.prev_lr - times_factor(obs.prev_lr) > Eps) =>
              sched.lr = times_factor(obs.prev_lr)
        /\ obs.streak = Patience + 1 => sched.lr = AfterReduction(obs.prev_lr)
        /\ obs.streak = Patience + 2 => sched.lr = obs.prev_lr

\* a 7th non-improving value after a reduction by the factor on the 6th
C2_Witness ==
    /\ sched.best.k = "fin"
    /\ obs.streak = Patience + 2
    /\ obs.reds = 1
    /\ obs.last_reduce = sched.last_epoch - 1
    /\ sched.lr > MinLr
    /\ sched.lr < args.lr

(* C3, as claimed: the timing harness never ends the run because a backend *)
(* of its device list is unavailable.                                      *)
C3_UnavailableBackendSkipped ==
    args.calc_time => error # "backend_unavailable"

(* C4, as claimed: whenever the timing harness has stopped, normally or    *)
(* not, the model is on the device it was on before the harness started.   *)
C4_ModelRestoredOnEveryPath ==
    (timing.dev >= 1 /\ pc \in {"done", "crashed"}) => model_device = device

(* C5: with dry_run a call of train processes at most log_interval + 1     *)
(* batches: it leaves the loop at the first logged batch, takes no         *)
(* optimizer step afterwards, and appends to history and returns the sum   *)
(* of the losses of the batches it processed, finite when they are.        *)
C5_DryRunStopsAtFirstLog ==
    /\ [](args.dry_run /\ pc \in {"train", "train_ret"} =>
            /\ Len(obs.batch_losses) <= args.log_interval + 1
            /\ loss_sum = SumLosses(obs.batch_losses)
            /\ pc = "train" => Len(obs.batch_losses) = 0
            /\ pc = "train_ret" =>
                  /\ logged(batch_idx)
                  /\ \A j \in 0..(batch_idx - 1) : ~logged(j)
                  /\ Len(obs.batch_losses) = batch_idx + 1)
    /\ [][(args.dry_run /\ pc \in {"train", "train_ret"} /\ pc' = "test") =>
            /\ train_loss' = SumLosses(obs.batch_losses)
            /\ history'.train_loss = Append(history.train_loss, train_loss')
            /\ obs'.opt_steps = obs.opt_steps
            /\ (\A i \in 1..Len(obs.batch_losses) : obs.batch_losses[i].k = "fin")
                  => train_loss'.k = "fin"]_vars

\* a dry run returned after one batch of a loader longer than log_interval + 1
C5_Witness ==
    /\ args.dry_run
    /\ env.n_batches > args.log_interval + 1
    /\ pc = "test"
    /\ obs.opt_steps = 1
    /\ history.train_loss = <<train_loss>>
    /\ train_loss.k = "fin"

(* C6: with a dataset selector other than 0, 1, 2 the process exits at     *)
(* once with a non-zero status, and nothing was loaded, built, created,    *)
(* trained, evaluated or appended to history.                              *)
C6_UnsupportedDatasetExits ==
    args.dataset \notin {0, 1, 2} =>
        /\ pc \in {"start", "exited"}
        /\ pc = "exited" => exit_code > 0
        /\ resources = {}
        /\ model_device = "none"
        /\ history = [train_loss |-> << >>, test_loss |-> << >>, test_acc |-> << >>]
        /\ obs.opt_steps = 0
        /\ obs.events = << >>
        /\ sched.last_epoch = 0

C6_Witness ==
    pc = "exited" /\ args.dataset \notin {0, 1, 2} /\ exit_code = 1

(* C7: history is append-only, one entry per completed epoch: between      *)
(* rounds each of its three lists has as many entries as epochs were       *)
(* completed, and no step, a failing one included, changes or removes an   *)
(* entry.                                                                  *)
C7_HistoryAppendOnly ==
    /\ [](pc \in {"loop", "report", "timing_move", "timing_warmup",
                  "timing_run", "done"} =>
            /\ Len(history.train_loss) = sched.last_epoch
            /\ Len(history.test_loss) = sched.last_epoch
            /\ Len(history.test_acc) = sched.last_epoch
            /\ sched.last_epoch = epoch - 1)
    /\ [][/\ IsPrefix(history.train_loss, history'.train_loss)
          /\ IsPrefix(history.test_loss, history'.test_loss)
          /\ IsPrefix(history.test_acc, history'.test_acc)
          /\ Len(history'.train_loss) <= Len(history.train_loss) + 1
          /\ Len(history'.test_loss) <= Len(history.test_loss) + 1
          /\ Len(history'.test_acc) <= Len(history.test_acc) + 1]_vars

\* a forward pass failed in the timing harness after two completed epochs
C7_Witness ==
    /\ pc = "crashed"
    /\ timing.dev >= 1
    /\ Len(history.train_loss) = 2
    /\ Len(history.test_loss) = 2
    /\ Len(history.test_acc) = 2

RECURSIVE Rounds(_)
Rounds(n) == IF n = 0 THEN << >> ELSE Rounds(n - 1) \o <<"train", "test", "step">>

(* C8: a run with epochs = E makes exactly E rounds, each a training pass, *)
(* then an evaluation pass, then one scheduler step on the loss that       *)
(* round's training pass returned; no optimizer step is taken during an    *)
(* evaluation pass, and the timing harness starts after the last step.     *)
C8_RoundOrder ==
    /\ [](/\ IsPrefix(obs.events, Rounds(args.epochs) \o <<"timing">>)
          /\ pc \in {"report", "timing_move", "timing_warmup", "timing_run",
                     "done"} =>
                /\ sched.last_epoch = args.epochs
                /\ Len(obs.events) >= 3 * args.epochs
          /\ sched.last_epoch >= 1 =>
                /\ Len(history.train_loss) >= sched.last_epoch
                /\ obs.metric = history.train_loss[sched.last_epoch]
          /\ pc = "test" => mode = "eval")
    /\ [][pc = "test" => obs'.opt_steps = obs.opt_steps]_vars

\* the timing harness started after two full rounds
C8_Witness ==
    /\ pc = "timing_move"
    /\ args.epochs = 2
    /\ obs.events = Rounds(2) \o <<"timing">>
    /\ obs.opt_steps = 4

(* C9: a nan or +inf metric is no improvement: the step leaves best as it  *)
(* was and the scheduler in the state any other non-improving value would  *)
(* leave it in, so the 6th of 6 such values in a row triggers a reduction. *)
C9_DegenerateMetricNoImprovement ==
    [][(sched'.last_epoch = sched.last_epoch + 1
          /\ obs'.metric.k \in {"inf", "nan"}) =>
        /\ sched'.best = sched.best
        /\ \A m \in Metrics : ~is_better(m, sched.best) => sched' = step(sched, m)
        /\ obs'.streak = obs.streak + 1
        /\ (obs'.deg_streak = Patience + 1 /\ obs'.streak = Patience + 1) =>
              /\ obs'.last_reduce = sched'.last_epoch
              /\ obs'.reds = 1]_vars

\* six nan / inf values in a row after an improvement, reduced on the 6th
C9_Witness ==
    /\ obs.deg_streak = Patience + 1
    /\ obs.streak = Patience + 1
    /\ sched.best.k = "fin"
    /\ obs.last_reduce = sched.last_epoch
    /\ sched.lr < obs.prev_lr

(* C10: with cooldown = 0.5 the cooldown lasts one call: the counter is    *)
(* 0.5 right after a reduction, the next call resets the bad-epoch count   *)
(* and makes it -0.5, where it stays (it is 0 only before the first        *)
(* reduction); two successive reductions are at least 7 calls apart.       *)
C10_CooldownOneCall ==
    /\ sched.cooldown_counter \in {0, CooldownTenths, CooldownTenths - 10}
    /\ sched.cooldown_counter = 0 <=> obs.last_reduce = 0
    /\ (obs.last_reduce # 0 /\ sched.last_epoch = obs.last_reduce) =>
          sched.cooldown_counter = CooldownTenths
    /\ (obs.last_reduce # 0 /\ sched.last_epoch > obs.last_reduce) =>
          sched.cooldown_counter = CooldownTenths - 10
    /\ (obs.last_reduce # 0 /\ sched.last_epoch = obs.last_reduce + 1) =>
          sched.num_bad_epochs = 0
    /\ obs.prev_reduce # 0 => obs.last_reduce - obs.prev_reduce >= Patience + 2

\* two reductions exactly 7 calls apart
C10_Witness ==
    /\ obs.prev_reduce # 0
    /\ obs.last_reduce = obs.prev_reduce + Patience + 2
    /\ sched.cooldown_counter = CooldownTenths

====
